---- MODULE Spec2Model ----
(***************************************************************************)
(* Model of the dynamic resource typing core of kube-rs:                   *)
(*   kube/src/api/dynamic.rs            ApiResource, Operations,           *)
(*                                      DynamicObject                      *)
(*   kube/src/client/discovery/resource_details.rs  ApiResourceExtras      *)
(*                                                                         *)
(* Rust `String`s are sequences of one-character strings, so that          *)
(* splitting, prefix stripping and formatting are computed character by    *)
(* character.  `Option<T>` is a sequence of length 0 (None) or 1 (Some).   *)
(* A call that panics yields [kind |-> "Panic"], a call that returns       *)
(* yields [kind |-> "Ok", value |-> ...].                                  *)
(***************************************************************************)
EXTENDS Integers, Sequences, FiniteSets, TLC

VARIABLES call, ret, stack, status
vars == <<call, ret, stack, status>>

(***************************************************************************)
(* Bounds of the explored inputs.                                          *)
(***************************************************************************)
MaxVerbs == 3
MaxGvLen == 3
MaxList == 3
MaxPayload == 2

(***************************************************************************)
(* String literals.                                                        *)
(***************************************************************************)
Slash == "/"
V_create == <<"c", "r", "e", "a", "t", "e">>
V_get == <<"g", "e", "t">>
V_list == <<"l", "i", "s", "t">>
V_watch == <<"w", "a", "t", "c", "h">>
V_delete == <<"d", "e", "l", "e", "t", "e">>
V_deletecollection == <<"d", "e", "l", "e", "t", "e", "c", "o", "l", "l", "e", "c", "t", "i", "o", "n">>
V_update == <<"u", "p", "d", "a", "t", "e">>
V_patch == <<"p", "a", "t", "c", "h">>
V_Create == <<"C", "r", "e", "a", "t", "e">>
V_proxy == <<"p", "r", "o", "x", "y">>
S_empty == <<>>
S_status == <<"s", "t", "a", "t", "u", "s">>
S_pods == <<"p", "o", "d", "s">>
S_pods_status == <<"p", "o", "d", "s", "/", "s", "t", "a", "t", "u", "s">>
S_Pod == <<"P", "o", "d">>
S_apps_v1 == <<"a", "p", "p", "s", "/", "v", "1">>
S_apps == <<"a", "p", "p", "s">>
S_v1 == <<"v", "1">>
S_v2 == <<"v", "2">>
S_clux_dev == <<"c", "l", "u", "x", ".", "d", "e", "v">>
S_Foo == <<"F", "o", "o">>
S_Service == <<"S", "e", "r", "v", "i", "c", "e">>
S_myns == <<"m", "y", "n", "s">>
S_baz == <<"b", "a", "z">>
S_namespaces == <<"n", "a", "m", "e", "s", "p", "a", "c", "e", "s">>
S_api == <<"a", "p", "i">>
S_apis == <<"a", "p", "i", "s">>
S_deployments == <<"d", "e", "p", "l", "o", "y", "m", "e", "n", "t", "s">>
S_Deployment == <<"D", "e", "p", "l", "o", "y", "m", "e", "n", "t">>
S_services == <<"s", "e", "r", "v", "i", "c", "e", "s">>
S_foos == <<"f", "o", "o", "s">>
P_custom_ns == <<"/", "a", "p", "i", "s", "/", "c", "l", "u", "x", ".", "d", "e", "v", "/", "v", "1", "/", "n", "a", "m", "e", "s", "p", "a", "c", "e", "s", "/", "m", "y", "n", "s", "/", "f", "o", "o", "s">>
P_custom_ns_name == <<"/", "a", "p", "i", "s", "/", "c", "l", "u", "x", ".", "d", "e", "v", "/", "v", "1", "/", "n", "a", "m", "e", "s", "p", "a", "c", "e", "s", "/", "m", "y", "n", "s", "/", "f", "o", "o", "s", "/", "b", "a", "z">>
P_core == <<"/", "a", "p", "i", "/", "v", "1", "/", "s", "e", "r", "v", "i", "c", "e", "s">>

(***************************************************************************)
(* Option<T> and call outcomes.                                            *)
(***************************************************************************)
None == <<>>
Some(x) == <<x>>
is_some(o) == Len(o) = 1
unwrap_or_else(o, d) == IF is_some(o) THEN o[1] ELSE d
Ok(v) == [kind |-> "Ok", value |-> v]
Panic(m) == [kind |-> "Panic", msg |-> m]

(***************************************************************************)
(* std::str operations used by the code.                                   *)
(***************************************************************************)
Range(s) == {s[i] : i \in 1..Len(s)}
\* index of the first occurrence of character c in s, 0 when there is none
find(s, c) == IF c \in Range(s) THEN CHOOSE i \in 1..Len(s) : s[i] = c /\ \A j \in 1..(i - 1) : s[j] # c ELSE 0
\* str::splitn(n, c): at most n pieces, the last one holding the remainder
RECURSIVE splitn(_, _, _)
splitn(s, n, c) ==
    IF n = 0 THEN <<>>
    ELSE IF n = 1 \/ find(s, c) = 0 THEN <<s>>
    ELSE <<SubSeq(s, 1, find(s, c) - 1)>> \o splitn(SubSeq(s, find(s, c) + 1, Len(s)), n - 1, c)
starts_with(s, p) == Len(p) <= Len(s) /\ SubSeq(s, 1, Len(p)) = p
ends_with(s, p) == Len(p) <= Len(s) /\ SubSeq(s, Len(s) - Len(p) + 1, Len(s)) = p
strip_prefix(s, p) == IF starts_with(s, p) THEN Some(SubSeq(s, Len(p) + 1, Len(s))) ELSE None

(***************************************************************************)
(* Operations (dynamic.rs).                                                *)
(***************************************************************************)
Operations_empty ==
    [create |-> FALSE, get |-> FALSE, list |-> FALSE, watch |-> FALSE,
     delete |-> FALSE, delete_collection |-> FALSE, update |-> FALSE,
     patch |-> FALSE, other |-> <<>>]

\* a fold that forgets the catch-all arm of the match
match_verb_drop_other(operations, verb) ==
    CASE verb = V_create -> [operations EXCEPT !.create = TRUE]
      [] verb = V_get -> [operations EXCEPT !.get = TRUE]
      [] verb = V_list -> [operations EXCEPT !.list = TRUE]
      [] verb = V_watch -> [operations EXCEPT !.watch = TRUE]
      [] verb = V_delete -> [operations EXCEPT !.delete = TRUE]
      [] verb = V_deletecollection -> [operations EXCEPT !.delete_collection = TRUE]
      [] verb = V_update -> [operations EXCEPT !.update = TRUE]
      [] verb = V_patch -> [operations EXCEPT !.patch = TRUE]
      [] OTHER -> operations

\* one iteration of `for verb in &ar.verbs { match verb.as_str() { .. } }`
match_verb(operations, verb) ==
    CASE verb = V_create -> [operations EXCEPT !.create = TRUE]
      [] verb = V_get -> [operations EXCEPT !.get = TRUE]
      [] verb = V_list -> [operations EXCEPT !.list = TRUE]
      [] verb = V_watch -> [operations EXCEPT !.watch = TRUE]
      [] verb = V_delete -> [operations EXCEPT !.delete = TRUE]
      [] verb = V_deletecollection -> [operations EXCEPT !.delete_collection = TRUE]
      [] verb = V_update -> [operations EXCEPT !.update = TRUE]
      [] verb = V_patch -> [operations EXCEPT !.patch = TRUE]
      [] OTHER -> [operations EXCEPT !.other = Append(@, verb)]

RECURSIVE fold_verbs(_, _)
fold_verbs(operations, verbs) ==
    IF verbs = <<>> THEN operations
    ELSE fold_verbs(match_verb(operations, Head(verbs)), Tail(verbs))

(***************************************************************************)
(* ApiResource (dynamic.rs).                                               *)
(***************************************************************************)
Cluster == "Cluster"
Namespaced == "Namespaced"

\* index of the last occurrence of character c in s, 0 when there is none
rfind(s, c) == IF c \in Range(s) THEN CHOOSE i \in 1..Len(s) : s[i] = c /\ \A j \in (i + 1)..Len(s) : s[j] # c ELSE 0
\* a split at the last '/' instead of the first
default_gv_rsplit(group_version) ==
    IF rfind(group_version, Slash) = 0 THEN Ok(<<S_empty, group_version>>)
    ELSE Ok(<<SubSeq(group_version, 1, rfind(group_version, Slash) - 1),
              SubSeq(group_version, rfind(group_version, Slash) + 1, Len(group_version))>>)

\* group_version.splitn(2, '/') and the match on the pieces; the last arm is
\* the code's unreachable!()
default_gv(group_version) ==
    LET gvsplit == splitn(group_version, 2, Slash)
    IN  IF Len(gvsplit) = 2 THEN Ok(<<gvsplit[1], gvsplit[2]>>)
        ELSE IF Len(gvsplit) = 1 THEN Ok(<<S_empty, gvsplit[1]>>)
        ELSE Panic("unreachable")

\* a derivation of api_version that formats even for the core group
api_version_always_format(group, version) == group \o <<Slash>> \o version

\* `if group.is_empty() { version.clone() } else { format!("{}/{}", group, version) }`
api_version_of(group, version) ==
    IF group = S_empty THEN version ELSE group \o <<Slash>> \o version

from_apiresource(ar, group_version) ==
    LET d == default_gv(group_version)
    IN  IF d.kind = "Panic" THEN d
        ELSE
          LET group == unwrap_or_else(ar.group, d.value[1])
              version == unwrap_or_else(ar.version, d.value[2])
          IN  Ok([group |-> group,
                  version |-> version,
                  kind |-> ar.kind,
                  api_version |-> api_version_of(group, version),
                  plural_name |-> ar.name,
                  scope |-> IF ar.namespaced THEN Namespaced ELSE Cluster,
                  subresources |-> <<>>,
                  operations |-> fold_verbs(Operations_empty, ar.verbs)])

(***************************************************************************)
(* Inputs.                                                                 *)
(***************************************************************************)
SeqsUpTo(S, n) == UNION {[1..k -> S] : k \in 0..n}
Verbs == {V_create, V_get, V_list, V_watch, V_delete, V_deletecollection,
          V_update, V_patch, V_Create, V_proxy, S_empty}
VerbLists == SeqsUpTo(Verbs, MaxVerbs)
AllVerbs == <<V_get, V_list, V_watch, V_create, V_update, V_patch, V_delete, V_deletecollection>>
GvAlphabet == {"a", "v", Slash}
GroupVersions == SeqsUpTo(GvAlphabet, MaxGvLen) \cup {S_apps_v1, S_v1}
APIResource(name, namespaced, kind, verbs, group, version) ==
    [name |-> name, namespaced |-> namespaced, kind |-> kind, verbs |-> verbs,
     group |-> group, version |-> version]
\* records that vary the verbs only
VerbRecords == {APIResource(S_deployments, TRUE, S_Deployment, vs, None, None) : vs \in VerbLists}
\* records that vary the group/version overrides and the scope
GvRecords ==
    {APIResource(S_services, ns, S_Service, <<V_get, V_proxy>>, g, v) :
        ns \in BOOLEAN,
        g \in {None, Some(S_empty), Some(<<"g">>)},
        v \in {None, Some(S_v2)}}
FromApiResourceInputs ==
    (VerbRecords \X {S_apps_v1, S_v1}) \cup (GvRecords \X GroupVersions)
        \cup {<<APIResource(S_deployments, TRUE, S_Deployment, AllVerbs, None, None), S_apps_v1>>}

(***************************************************************************)
(* Pluralisation (crate::api::metadata::to_plural, outside the analysed    *)
(* sources) and str::to_ascii_lowercase.                                   *)
(***************************************************************************)
UpperCase == <<"A", "B", "C", "D", "E", "F", "G", "H", "I", "J", "K", "L", "M", "N", "O", "P", "Q", "R", "S", "T", "U", "V", "W", "X", "Y", "Z">>
LowerCase == <<"a", "b", "c", "d", "e", "f", "g", "h", "i", "j", "k", "l", "m", "n", "o", "p", "q", "r", "s", "t", "u", "v", "w", "x", "y", "z">>
to_ascii_lowercase(s) ==
    [i \in 1..Len(s) |->
        IF \E k \in 1..Len(UpperCase) : UpperCase[k] = s[i]
        THEN LowerCase[CHOOSE k \in 1..Len(UpperCase) : UpperCase[k] = s[i]]
        ELSE s[i]]
Vowels == {"a", "e", "i", "o", "u"}
to_plural(word) ==
    IF \/ ends_with(word, <<"s">>) \/ ends_with(word, <<"x">>)
       \/ ends_with(word, <<"c", "h">>) \/ ends_with(word, <<"s", "h">>)
    THEN word \o <<"e", "s">>
    ELSE IF ends_with(word, <<"y">>) /\ Len(word) >= 2 /\ word[Len(word) - 1] \notin Vowels
    THEN SubSeq(word, 1, Len(word) - 1) \o <<"i", "e", "s">>
    ELSE word \o <<"s">>

GroupVersionKind(group, version, kind) == [group |-> group, version |-> version, kind |-> kind]

from_gvk(gvk) ==
    [group |-> gvk.group,
     version |-> gvk.version,
     api_version |-> IF gvk.group = S_empty THEN gvk.version
                     ELSE gvk.group \o <<Slash>> \o gvk.version,
     kind |-> gvk.kind,
     plural_name |-> to_plural(to_ascii_lowercase(gvk.kind)),
     scope |-> Namespaced,
     subresources |-> <<S_status>>,
     operations |-> [create |-> TRUE, get |-> TRUE, list |-> TRUE, watch |-> TRUE,
                     delete |-> TRUE, delete_collection |-> TRUE, update |-> TRUE,
                     patch |-> TRUE, other |-> <<>>]]

Groups == {S_empty, S_clux_dev, S_apps, <<"a", Slash>>}
Versions == {S_v1, S_v2, S_empty}
Kinds == {S_Foo, S_Service, S_Pod}
Gvks == {GroupVersionKind(g, v, k) : g \in Groups, v \in Versions, k \in Kinds}

(***************************************************************************)
(* ApiResourceExtras (resource_details.rs).                                *)
(***************************************************************************)
Extras_Operations_empty ==
    [create |-> FALSE, get |-> FALSE, list |-> FALSE, watch |-> FALSE,
     delete |-> FALSE, delete_collection |-> FALSE, update |-> FALSE,
     patch |-> FALSE, other |-> <<>>]

\* one iteration of the verb loop of from_apiresourcelist
extras_match_verb(operations, verb) ==
    CASE verb = V_create -> [operations EXCEPT !.create = TRUE]
      [] verb = V_get -> [operations EXCEPT !.get = TRUE]
      [] verb = V_list -> [operations EXCEPT !.list = TRUE]
      [] verb = V_watch -> [operations EXCEPT !.watch = TRUE]
      [] verb = V_delete -> [operations EXCEPT !.delete = TRUE]
      [] verb = V_deletecollection -> [operations EXCEPT !.delete_collection = TRUE]
      [] verb = V_update -> [operations EXCEPT !.update = TRUE]
      [] verb = V_patch -> [operations EXCEPT !.patch = TRUE]
      [] OTHER -> [operations EXCEPT !.other = Append(@, verb)]

RECURSIVE extras_fold_verbs(_, _)
extras_fold_verbs(operations, verbs) ==
    IF verbs = <<>> THEN operations
    ELSE extras_fold_verbs(extras_match_verb(operations, Head(verbs)), Tail(verbs))

APIResourceList(group_version, resources) ==
    [group_version |-> group_version, resources |-> resources]

\* list.resources.iter().find(|r| r.name == name): index of the first record
\* named `name`, 0 when there is none
find_resource(l, name) ==
    IF \E i \in 1..Len(l.resources) : l.resources[i].name = name
    THEN CHOOSE i \in 1..Len(l.resources) :
            /\ l.resources[i].name = name
            /\ \A j \in 1..(i - 1) : l.resources[j].name # name
    ELSE 0

\* a prefix without the separating '/'
subresource_name_prefix_bare(name) == name

\* format!("{}/", name)
subresource_name_prefix(name) == name \o <<Slash>>

RECURSIVE from_apiresourcelist(_, _)
RECURSIVE subresources_from(_, _, _)

\* a lookup failure answered with a default value instead of the panic
from_apiresourcelist_default(l, name) ==
    LET i == find_resource(l, name)
    IN  IF i = 0
        THEN Ok([scope |-> Cluster, subresources |-> <<>>, operations |-> Extras_Operations_empty])
        ELSE
          LET ar == l.resources[i]
              subs == subresources_from(l, name, 1)
          IN  IF subs.kind = "Panic" THEN subs
              ELSE Ok([scope |-> IF ar.namespaced THEN Namespaced ELSE Cluster,
                       subresources |-> subs.value,
                       operations |-> extras_fold_verbs(Extras_Operations_empty, ar.verbs)])

\* a subresource loop that leaves the record's full name as the plural
subresources_from_keep_name(l, name, k) ==
    IF k > Len(l.resources) THEN Ok(<<>>)
    ELSE
      LET res == l.resources[k]
          stripped == strip_prefix(res.name, subresource_name_prefix(name))
      IN  IF ~is_some(stripped) THEN subresources_from(l, name, k + 1)
          ELSE
            LET api_resource == from_apiresource(res, l.group_version)
                extra == IF api_resource.kind = "Panic" THEN api_resource
                         ELSE from_apiresourcelist(l, res.name)
                rest == IF extra.kind = "Panic" THEN extra
                        ELSE subresources_from(l, name, k + 1)
            IN  IF rest.kind = "Panic" THEN rest
                ELSE Ok(<<<<api_resource.value, extra.value>>>> \o rest.value)

\* `for res in &list.resources { if let Some(subresource_name) = .. }`, from
\* the k-th record on; a panic of a callee unwinds through the loop
subresources_from(l, name, k) ==
    IF k > Len(l.resources) THEN Ok(<<>>)
    ELSE
      LET res == l.resources[k]
          stripped == strip_prefix(res.name, subresource_name_prefix(name))
      IN  IF ~is_some(stripped) THEN subresources_from(l, name, k + 1)
          ELSE
            LET api_resource == from_apiresource(res, l.group_version)
                extra == IF api_resource.kind = "Panic" THEN api_resource
                         ELSE from_apiresourcelist(l, res.name)
                rest == IF extra.kind = "Panic" THEN extra
                        ELSE subresources_from(l, name, k + 1)
            IN  IF rest.kind = "Panic" THEN rest
                ELSE Ok(<<<<[api_resource.value EXCEPT !.plural_name = stripped[1]],
                             extra.value>>>> \o rest.value)

from_apiresourcelist(l, name) ==
    LET i == find_resource(l, name)
    IN  IF i = 0 THEN Panic("resource not found in APIResourceList")
        ELSE
          LET ar == l.resources[i]
              operations == extras_fold_verbs(Extras_Operations_empty, ar.verbs)
              subs == subresources_from(l, name, 1)
          IN  IF subs.kind = "Panic" THEN subs
              ELSE Ok([scope |-> IF ar.namespaced THEN Namespaced ELSE Cluster,
                       subresources |-> subs.value,
                       operations |-> operations])

N_p == <<"p">>
N_p_s == <<"p", Slash, "s">>
N_p_s_t == <<"p", Slash, "s", Slash, "t">>
N_p_ == <<"p", Slash>>
N_ps == <<"p", "s">>
N_s == <<"s">>
Names == {N_p, N_p_s, N_p_s_t, N_p_, N_ps, N_s}
\* every name comes in two variants that differ in every other field
ListRecords ==
    {APIResource(n, TRUE, S_Pod, <<V_get, V_list>>, None, None) : n \in Names}
        \cup {APIResource(n, FALSE, S_Service, <<V_proxy>>, Some(<<"g">>), Some(S_v2)) : n \in Names}
PodsList ==
    APIResourceList(S_v1, <<APIResource(S_pods, TRUE, S_Pod, AllVerbs, None, None),
                            APIResource(S_pods_status, TRUE, S_Pod, <<V_get, V_patch, V_update>>, None, None)>>)
PodsOnlyList ==
    APIResourceList(S_v1, <<APIResource(S_pods, TRUE, S_Pod, AllVerbs, None, None)>>)
ResourceLists ==
    {APIResourceList(S_apps_v1, rs) : rs \in SeqsUpTo(ListRecords, MaxList)}
FromApiResourceListInputs ==
    (ResourceLists \X Names)
        \cup ({PodsList, PodsOnlyList} \X {S_pods, S_status})
        \cup ({APIResourceList(S_apps_v1, <<r>>) : r \in VerbRecords} \X {S_deployments})

(***************************************************************************)
(* Request path.  impl Resource for DynamicObject (dynamic.rs:230-260)     *)
(* gives the path builder the descriptor's group, version, kind,           *)
(* api_version and plural, and nothing else: the scope is not among them.  *)
(* Resource::url_path and Request are outside the analysed sources (the    *)
(* tests of dynamic.rs call them); their bodies follow the documented path *)
(* rules, written over what the impl exposes.                              *)
(***************************************************************************)
Resource_group(dt) == dt.group
Resource_version(dt) == dt.version
\* an impl that hands out the kind as the plural
Resource_plural_kind(dt) == dt.kind
Resource_plural(dt) == dt.plural_name

\* DynamicObject::url_path(&res, namespace)
url_path(dt, namespace) ==
    (IF Resource_group(dt) = S_empty THEN <<Slash>> \o S_api
     ELSE <<Slash>> \o S_apis \o <<Slash>> \o Resource_group(dt))
    \o <<Slash>> \o Resource_version(dt)
    \o (IF is_some(namespace) THEN <<Slash>> \o S_namespaces \o <<Slash>> \o namespace[1] ELSE <<>>)
    \o <<Slash>> \o Resource_plural(dt)

\* the target of a request on url_path: the name and the subresource follow
buildPath(descriptor, namespace, name, subresource) ==
    url_path(descriptor, namespace)
    \o (IF is_some(name) THEN <<Slash>> \o name[1] ELSE <<>>)
    \o (IF is_some(subresource) THEN <<Slash>> \o subresource[1] ELSE <<>>)

\* descriptors of both construction paths, cluster-scoped ones included
PathDescriptors ==
    {from_gvk(gvk) : gvk \in Gvks}
        \cup {from_apiresource(ar, S_apps_v1).value : ar \in GvRecords}
BuildPathInputs ==
    PathDescriptors \X {None, Some(S_myns)} \X {None, Some(S_baz)} \X {None, Some(S_status)}

(***************************************************************************)
(* DynamicObject (dynamic.rs) and its serde representation.                *)
(*                                                                         *)
(* A JSON value is [t, s, o, a]: its type, its text (strings and numbers), *)
(* its entries (objects: a sequence of <<key, value>> in document order)   *)
(* and its items (arrays).  Keys and texts are strings of characters.      *)
(***************************************************************************)
K_apiVersion == <<"a", "p", "i", "V", "e", "r", "s", "i", "o", "n">>
K_kind == <<"k", "i", "n", "d">>
K_metadata == <<"m", "e", "t", "a", "d", "a", "t", "a">>
K_name == <<"n", "a", "m", "e">>
K_namespace == <<"n", "a", "m", "e", "s", "p", "a", "c", "e">>
K_spec == <<"s", "p", "e", "c">>
K_foo == <<"f", "o", "o">>
K_items == <<"i", "t", "e", "m", "s">>
K_zz == <<"z", "z">>
K_a == <<"a">>
K_b == <<"b">>
K_data == <<"d", "a", "t", "a">>
T_x == <<"x">>
T_n == <<"n">>
T_1 == <<"1">>
T_2 == <<"2">>
JNull == [t |-> "null", s |-> <<>>, o |-> <<>>, a |-> <<>>]
JString(x) == [t |-> "string", s |-> x, o |-> <<>>, a |-> <<>>]
JNumber(x) == [t |-> "number", s |-> x, o |-> <<>>, a |-> <<>>]
JObject(entries) == [t |-> "object", s |-> <<>>, o |-> entries, a |-> <<>>]
JArray(items) == [t |-> "array", s |-> <<>>, o |-> <<>>, a |-> items]
Err(m) == [kind |-> "Err", msg |-> m]
Keys(entries) == {entries[i][1] : i \in 1..Len(entries)}
\* the value of the last entry with this key
LastValue(entries, key) ==
    entries[CHOOSE i \in 1..Len(entries) :
                /\ entries[i][1] = key
                /\ \A j \in (i + 1)..Len(entries) : entries[j][1] # key][2]

\* the order of String keys in serde_json's Map (a BTreeMap): byte by byte,
\* a proper prefix first; the characters are the printable ASCII ones
Ascii == <<" ", "!", "\"", "#", "$", "%", "&", "'", "(", ")", "*", "+", ",", "-", ".", "/", "0", "1", "2", "3", "4", "5", "6", "7", "8", "9", ":", ";", "<", "=", ">", "?", "@", "A", "B", "C", "D", "E", "F", "G", "H", "I", "J", "K", "L", "M", "N", "O", "P", "Q", "R", "S", "T", "U", "V", "W", "X", "Y", "Z", "[", "\\", "]", "^", "_", "a", "b", "c", "d", "e", "f", "g", "h", "i", "j", "k", "l", "m", "n", "o", "p", "q", "r", "s", "t", "u", "v", "w", "x", "y", "z", "{", "|", "}", "~">>
CodeOf(c) == CHOOSE i \in 1..Len(Ascii) : Ascii[i] = c
str_lt(x, y) ==
    \E k \in 1..(Len(x) + 1) :
        /\ k <= Len(y)
        /\ \A j \in 1..(k - 1) : x[j] = y[j]
        /\ k = Len(x) + 1 \/ CodeOf(x[k]) < CodeOf(y[k])
RECURSIVE sorted_keys(_)
sorted_keys(keys) ==
    IF keys = {} THEN <<>>
    ELSE LET least == CHOOSE x \in keys : \A y \in keys \ {x} : str_lt(x, y)
         IN  <<least>> \o sorted_keys(keys \ {least})

\* serde_json::Value read from a document: an object becomes a Map, where a
\* repeated key keeps its last value and the keys are sorted, at every depth
RECURSIVE value_from(_)
map_from(entries) ==
    LET keys == sorted_keys(Keys(entries))
    IN  [i \in 1..Len(keys) |-> <<keys[i], value_from(LastValue(entries, keys[i]))>>]
value_from(v) ==
    IF v.t = "object" THEN JObject(map_from(v.o))
    ELSE IF v.t = "array" THEN JArray([i \in 1..Len(v.a) |-> value_from(v.a[i])])
    ELSE v

\* k8s_openapi ObjectMeta, reduced to name and namespace: unknown keys are
\* ignored, absent fields are None and are not written back
ObjectMeta_deserialize(value) ==
    IF value.t # "object" THEN Err("invalid type: expected ObjectMeta")
    ELSE IF \E i \in 1..Len(value.o) :
               value.o[i][1] \in {K_name, K_namespace} /\ value.o[i][2].t # "string"
    THEN Err("invalid type: expected a string")
    ELSE Ok([name |-> IF K_name \in Keys(value.o) THEN Some(LastValue(value.o, K_name).s) ELSE None,
             namespace |-> IF K_namespace \in Keys(value.o)
                           THEN Some(LastValue(value.o, K_namespace).s) ELSE None])
ObjectMeta_serialize(metadata) ==
    JObject((IF is_some(metadata.name) THEN <<<<K_name, JString(metadata.name[1])>>>> ELSE <<>>)
            \o (IF is_some(metadata.namespace)
                THEN <<<<K_namespace, JString(metadata.namespace[1])>>>> ELSE <<>>))

\* TypeMeta's wire names
TypeMetaFields == {K_apiVersion, K_kind}

\* Option<TypeMeta> read from the flattened entries: the struct visitor takes
\* every entry it recognizes out of the buffer, in order, and stops at the
\* first error; an error makes the field None and leaves the entries taken
\* so far out of the buffer.  `buffer` is what is still to visit, `kept` what
\* stays for the next flattened field.
RECURSIVE types_from_flat(_, _, _, _)
types_from_flat(buffer, kept, api_version, kind) ==
    IF buffer = <<>>
    THEN [types |-> IF is_some(api_version) /\ is_some(kind)
                    THEN Some([api_version |-> api_version[1], kind |-> kind[1]])
                    ELSE None,
          collect |-> kept]
    ELSE
      LET e == Head(buffer)
      IN  IF e[1] \notin TypeMetaFields
          THEN types_from_flat(Tail(buffer), Append(kept, e), api_version, kind)
          ELSE IF e[2].t # "string" \/ (e[1] = K_apiVersion /\ is_some(api_version))
                  \/ (e[1] = K_kind /\ is_some(kind))
          THEN [types |-> None, collect |-> kept \o Tail(buffer)]
          ELSE IF e[1] = K_apiVersion
          THEN types_from_flat(Tail(buffer), kept, Some(e[2].s), kind)
          ELSE types_from_flat(Tail(buffer), kept, api_version, Some(e[2].s))

\* serde_json::Value read from the flattened entries that are left: a Map of
\* every one of them
data_from_flat(collect) == JObject(map_from(collect))

IsMetadata(e) == e[1] = K_metadata
IsFlattened(e) == e[1] # K_metadata

\* #[derive(Deserialize)] of DynamicObject on a JSON object: the entries are
\* visited in document order; the value of the first metadata entry is read
\* when it is met, a second metadata entry is refused when it is met, and a
\* missing metadata is found at the end.  The flattened entries are buffered
\* on the way and read afterwards.
deserialize(entries) ==
    LET found == SelectSeq(entries, IsMetadata)
        flat == types_from_flat(SelectSeq(entries, IsFlattened), <<>>, None, None)
    IN  IF Len(found) = 0 THEN Err("missing field metadata")
        ELSE IF ObjectMeta_deserialize(found[1][2]).kind = "Err"
        THEN ObjectMeta_deserialize(found[1][2])
        ELSE IF Len(found) > 1 THEN Err("duplicate field metadata")
        ELSE Ok([types |-> flat.types,
                 metadata |-> ObjectMeta_deserialize(found[1][2]).value,
                 data |-> data_from_flat(flat.collect)])

\* a serializer that nests the payload under a key of its own
serialize_nested(object) ==
    Ok((IF is_some(object.types)
        THEN <<<<K_apiVersion, JString(object.types[1].api_version)>>,
               <<K_kind, JString(object.types[1].kind)>>>>
        ELSE <<>>)
       \o <<<<K_metadata, ObjectMeta_serialize(object.metadata)>>>>
       \o <<<<K_data, object.data>>>>)

\* #[derive(Serialize)] of DynamicObject: the fields in declaration order,
\* `types` and `data` flattened into the object itself.  A flattened Map
\* writes its entries, a flattened Null writes nothing, any other value is
\* refused.
serialize(object) ==
    IF object.data.t \notin {"object", "null"} THEN Err("can only flatten structs and maps")
    ELSE Ok((IF is_some(object.types)
             THEN <<<<K_apiVersion, JString(object.types[1].api_version)>>,
                    <<K_kind, JString(object.types[1].kind)>>>>
             ELSE <<>>)
            \o <<<<K_metadata, ObjectMeta_serialize(object.metadata)>>>>
            \o object.data.o)

round_trip(entries) ==
    IF deserialize(entries).kind = "Err" THEN deserialize(entries)
    ELSE serialize(deserialize(entries).value)

\* DynamicObject::new, ::data and ::namespace
DynamicObject_new(name, resource) ==
    [types |-> Some([api_version |-> resource.api_version, kind |-> resource.kind]),
     metadata |-> [name |-> Some(name), namespace |-> None],
     data |-> JNull]
DynamicObject_data(object, value) == [object EXCEPT !.data = value]
DynamicObject_namespace(object, ns) == [object EXCEPT !.metadata.namespace = Some(ns)]

PayloadKeys == {K_spec, K_foo, K_items, K_zz}
PayloadValues ==
    {JNull, JString(T_x),
     JObject(<<<<K_b, JNumber(T_1)>>, <<K_a, JNumber(T_2)>>>>),
     JObject(<<<<K_a, JNumber(T_1)>>, <<K_a, JNumber(T_2)>>>>),
     JArray(<<JObject(<<<<K_zz, JNull>>, <<K_b, JString(T_x)>>>>), JNumber(T_1)>>)}
PayloadSeqs ==
    {q \in SeqsUpTo(PayloadKeys \X PayloadValues, MaxPayload) :
        \A i, j \in 1..Len(q) : i # j => q[i][1] # q[j][1]}
MetadataValues ==
    {JObject(<<>>),
     JObject(<<<<K_name, JString(K_a)>>>>),
     JObject(<<<<K_namespace, JString(T_n)>>, <<K_name, JString(K_a)>>>>)}
\* the type info, absent or complete, split into what precedes and what
\* follows the other keys
TypePlacements ==
    LET av == <<K_apiVersion, JString(S_apps_v1)>>
        k == <<K_kind, JString(S_Pod)>>
    IN  {<<<<>>, <<>>>>, <<<<av, k>>, <<>>>>, <<<<>>, <<k, av>>>>, <<<<k>>, <<av>>>>}
\* the object with the metadata after the first i payload keys
JsonObject(tp, q, m, i) ==
    tp[1] \o SubSeq(q, 1, i) \o <<<<K_metadata, m>>>> \o SubSeq(q, i + 1, Len(q)) \o tp[2]
\* objects that do not deserialize: metadata missing, not an object, or
\* given twice
RefusedObjects ==
    {<<>>, <<<<K_spec, JString(T_x)>>>>}
        \cup {<<<<K_metadata, m1>>, <<K_foo, JNull>>, <<K_metadata, m2>>>> :
                m1, m2 \in {JNumber(T_1), JString(T_x), JObject(<<<<K_name, JString(K_a)>>>>),
                            JObject(<<<<K_name, JNumber(T_1)>>>>)}}
        \cup {<<<<K_metadata, m>>>> : m \in {JNumber(T_1), JNull, JObject(<<<<K_namespace, JNull>>>>)}}
\* objects built with new, then namespace and data or not
BuiltObjects ==
    {IF is_some(d) THEN DynamicObject_data(o, d[1]) ELSE o :
        d \in {None, Some(JObject(<<<<K_spec, JString(T_x)>>>>)), Some(JString(T_x))},
        o \in UNION {{DynamicObject_new(K_a, r), DynamicObject_namespace(DynamicObject_new(K_a, r), T_n)} :
                        r \in {from_gvk(gvk) : gvk \in Gvks}}}

(***************************************************************************)
(* The state machine: every operation is one call on fresh inputs.         *)
(***************************************************************************)
Init ==
    /\ call = [op |-> "none"]
    /\ ret = [kind |-> "none"]
    /\ stack = <<>>
    /\ status = "idle"

CallFromApiResource ==
    /\ status = "idle"
    /\ \E in \in FromApiResourceInputs :
        /\ call' = [op |-> "from_apiresource", ar |-> in[1], group_version |-> in[2]]
        /\ ret' = from_apiresource(in[1], in[2])
    /\ status' = "returned"
    /\ UNCHANGED stack

CallFromGvk ==
    /\ status = "idle"
    /\ \E gvk \in Gvks :
        /\ call' = [op |-> "from_gvk", gvk |-> gvk]
        /\ ret' = Ok(from_gvk(gvk))
    /\ status' = "returned"
    /\ UNCHANGED stack

CallFromApiResourceList ==
    /\ status = "idle"
    /\ \E in \in FromApiResourceListInputs :
        /\ call' = [op |-> "from_apiresourcelist", list |-> in[1], name |-> in[2]]
        /\ ret' = from_apiresourcelist(in[1], in[2])
    /\ status' = "returned"
    /\ UNCHANGED stack

CallBuildPath ==
    /\ status = "idle"
    /\ \E in \in BuildPathInputs :
        /\ call' = [op |-> "buildPath", descriptor |-> in[1], namespace |-> in[2],
                    name |-> in[3], subresource |-> in[4]]
        /\ ret' = Ok(buildPath(in[1], in[2], in[3], in[4]))
    /\ status' = "returned"
    /\ UNCHANGED stack

CallRoundTrip ==
    /\ status = "idle"
    /\ \E q \in PayloadSeqs, tp \in TypePlacements, m \in MetadataValues :
        \E i \in 0..Len(q) :
            /\ call' = [op |-> "round_trip", json |-> JsonObject(tp, q, m, i)]
            /\ ret' = round_trip(JsonObject(tp, q, m, i))
    /\ status' = "returned"
    /\ UNCHANGED stack

CallDeserialize ==
    /\ status = "idle"
    /\ \E json \in RefusedObjects :
        /\ call' = [op |-> "deserialize", json |-> json]
        /\ ret' = deserialize(json)
    /\ status' = "returned"
    /\ UNCHANGED stack

CallSerialize ==
    /\ status = "idle"
    /\ \E object \in BuiltObjects :
        /\ call' = [op |-> "serialize", object |-> object]
        /\ ret' = serialize(object)
    /\ status' = "returned"
    /\ UNCHANGED stack

Next ==
    \/ CallFromApiResource
    \/ CallFromGvk
    \/ CallFromApiResourceList
    \/ CallBuildPath
    \/ CallRoundTrip
    \/ CallSerialize
    \/ CallDeserialize

Spec == Init /\ [][Next]_vars

(***************************************************************************)
(* from_apiresourcelist step by step: `stack` holds one frame per active   *)
(* call, the innermost last; a frame is the call's `name` and the index k  *)
(* of the record its subresource loop looks at next (0: the lookup of the  *)
(* target has not run yet).  `ret.calls` counts the calls made so far.     *)
(***************************************************************************)
WalkLists ==
    {APIResourceList(S_apps_v1, rs) :
        rs \in SeqsUpTo({APIResource(n, TRUE, S_Pod, <<V_get>>, None, None) : n \in Names}, MaxList)}
Top == stack[Len(stack)]
SetTopIndex(k) == [stack EXCEPT ![Len(stack)].k = k]

WalkInit ==
    /\ \E l \in WalkLists, n \in Names :
        /\ call = [op |-> "from_apiresourcelist", list |-> l, name |-> n]
        /\ stack = <<[name |-> n, k |-> 0]>>
    /\ ret = [kind |-> "running", calls |-> 1]
    /\ status = "running"

\* .find(..).expect(..) succeeds; the verb fold and the scope need no step
WalkFound ==
    /\ status = "running"
    /\ Top.k = 0
    /\ find_resource(call.list, Top.name) # 0
    /\ stack' = SetTopIndex(1)
    /\ UNCHANGED <<call, ret, status>>

\* .expect(..) panics and unwinds every frame
WalkNotFound ==
    /\ status = "running"
    /\ Top.k = 0
    /\ find_resource(call.list, Top.name) = 0
    /\ stack' = <<>>
    /\ ret' = Panic("resource not found in APIResourceList")
    /\ status' = "panicked"
    /\ UNCHANGED call

\* the loop passes a record that is no subresource of the frame's name
WalkSkip ==
    /\ status = "running"
    /\ Top.k \in 1..Len(call.list.resources)
    /\ ~is_some(strip_prefix(call.list.resources[Top.k].name, subresource_name_prefix(Top.name)))
    /\ stack' = SetTopIndex(Top.k + 1)
    /\ UNCHANGED <<call, ret, status>>

\* the loop finds a subresource and calls from_apiresourcelist on its name
WalkRecurse ==
    /\ status = "running"
    /\ Top.k \in 1..Len(call.list.resources)
    /\ is_some(strip_prefix(call.list.resources[Top.k].name, subresource_name_prefix(Top.name)))
    /\ stack' = Append(SetTopIndex(Top.k + 1), [name |-> call.list.resources[Top.k].name, k |-> 0])
    /\ ret' = [ret EXCEPT !.calls = @ + 1]
    /\ UNCHANGED <<call, status>>

\* the loop is over: the call returns to its caller
WalkReturn ==
    /\ status = "running"
    /\ Top.k > Len(call.list.resources)
    /\ stack' = SubSeq(stack, 1, Len(stack) - 1)
    /\ IF Len(stack) = 1
       THEN status' = "done" /\ ret' = [kind |-> "Ok", calls |-> ret.calls]
       ELSE UNCHANGED <<ret, status>>
    /\ UNCHANGED call

WalkNext ==
    \/ WalkFound
    \/ WalkNotFound
    \/ WalkSkip
    \/ WalkRecurse
    \/ WalkReturn

WalkSpec == WalkInit /\ [][WalkNext]_vars /\ WF_vars(WalkNext)

(***************************************************************************)
(* Properties.                                                             *)
(***************************************************************************)
KnownVerbs == {V_create, V_get, V_list, V_watch, V_delete, V_deletecollection, V_update, V_patch}
Unrecognized(v) == v \notin KnownVerbs
\* the flags and `other` that a verb list must produce
FoldedExactly(operations, verbs) ==
    /\ operations.create = (V_create \in Range(verbs))
    /\ operations.get = (V_get \in Range(verbs))
    /\ operations.list = (V_list \in Range(verbs))
    /\ operations.watch = (V_watch \in Range(verbs))
    /\ operations.delete = (V_delete \in Range(verbs))
    /\ operations.delete_collection = (V_deletecollection \in Range(verbs))
    /\ operations.update = (V_update \in Range(verbs))
    /\ operations.patch = (V_patch \in Range(verbs))
    /\ operations.other = SelectSeq(verbs, Unrecognized)
    /\ \A i \in 1..Len(operations.other) : operations.other[i] \notin KnownVerbs
Returned(op) == status = "returned" /\ call.op = op /\ ret.kind = "Ok"
\* the record that from_apiresourcelist resolves: the first one named `name`
TargetRecord == call.list.resources[find_resource(call.list, call.name)]

\* C1: the verb fold of from_apiresource and of from_apiresourcelist sets a
\* flag exactly when its verb occurs in the input, `other` is exactly the
\* subsequence of unrecognized strings in input order, and no recognized verb
\* is in `other`.
C1_FoldExact ==
    /\ Returned("from_apiresource") => FoldedExactly(ret.value.operations, call.ar.verbs)
    /\ Returned("from_apiresourcelist") => FoldedExactly(ret.value.operations, TargetRecord.verbs)
C1_Witness ==
    /\ Returned("from_apiresource")
    /\ call.ar.verbs = <<V_Create, V_create, V_proxy>>
    /\ ret.value.operations.create
    /\ ~ret.value.operations.get
    /\ ret.value.operations.other = <<V_Create, V_proxy>>

\* every descriptor of a resolved tree of subresources
RECURSIVE TreeDescriptors(_)
TreeDescriptors(extras) ==
    UNION {{extras.subresources[i][1]} \cup TreeDescriptors(extras.subresources[i][2]) :
              i \in 1..Len(extras.subresources)}
ReturnedDescriptors ==
    IF Returned("from_apiresource") \/ Returned("from_gvk") THEN {ret.value}
    ELSE IF Returned("from_apiresourcelist") THEN TreeDescriptors(ret.value)
    ELSE {}

\* C2: in every descriptor a constructor returns, api_version is version
\* when group is empty and group + "/" + version otherwise.
C2_ApiVersionDerived ==
    \A d \in ReturnedDescriptors :
        /\ d.group = S_empty => d.api_version = d.version
        /\ d.group # S_empty =>
              /\ Len(d.api_version) = Len(d.group) + 1 + Len(d.version)
              /\ SubSeq(d.api_version, 1, Len(d.group)) = d.group
              /\ d.api_version[Len(d.group) + 1] = Slash
              /\ SubSeq(d.api_version, Len(d.group) + 2, Len(d.api_version)) = d.version
C2_Witness ==
    /\ Returned("from_gvk")
    /\ call.gvk.group = S_empty
    /\ ret.value.version = S_v1
    /\ ret.value.api_version = S_v1

\* the part of s before its first '/', empty when s has none
BeforeFirstSlash(s) ==
    IF Slash \notin Range(s) THEN S_empty
    ELSE LET k == CHOOSE k \in 1..Len(s) : s[k] = Slash /\ Slash \notin Range(SubSeq(s, 1, k - 1))
         IN  SubSeq(s, 1, k - 1)
\* the part of s after its first '/', all of s when it has none
AfterFirstSlash(s) == SubSeq(s, Len(BeforeFirstSlash(s)) + (IF Slash \in Range(s) THEN 2 ELSE 1), Len(s))

\* C3: from_apiresource resolves group and version independently: the
\* record's own value when present, otherwise the part of the list's
\* group-version before (group) or after (version) its first '/'; a record
\* that carries both yields a descriptor independent of the group-version.
C3_GroupVersionResolution ==
    Returned("from_apiresource") =>
        /\ ret.value.group = (IF is_some(call.ar.group) THEN call.ar.group[1]
                              ELSE BeforeFirstSlash(call.group_version))
        /\ ret.value.version = (IF is_some(call.ar.version) THEN call.ar.version[1]
                                ELSE AfterFirstSlash(call.group_version))
        /\ (is_some(call.ar.group) /\ is_some(call.ar.version)) =>
              \A gv \in GroupVersions : from_apiresource(call.ar, gv) = ret
        /\ (call.group_version = S_v1 /\ call.ar.group = None /\ call.ar.version = None) =>
              ret.value.group = S_empty /\ ret.value.api_version = S_v1
C3_Witness ==
    /\ Returned("from_apiresource")
    /\ call.group_version = <<"a", Slash, "v">>
    /\ call.ar.group = Some(<<"g">>)
    /\ call.ar.version = None
    /\ ret.value.group = <<"g">>
    /\ ret.value.version = <<"v">>

SlashCount(s) == Cardinality({i \in 1..Len(s) : s[i] = Slash})

\* C4: a call of from_apiresource with more than one '/' in the list's
\* group-version never returns a descriptor.
C4_MalformedGroupVersionFails ==
    (status = "returned" /\ call.op = "from_apiresource" /\ SlashCount(call.group_version) > 1)
        => ret.kind # "Ok"

NameAbsent == \A i \in 1..Len(call.list.resources) : call.list.resources[i].name # call.name
Resolved == status = "returned" /\ call.op = "from_apiresourcelist"

\* C5 as stated: when no record of the list is named like the target, the
\* resolution ends in a not-found failure reported to the caller as a
\* failure of its own kind, distinct from a contract violation (a panic),
\* and never in a returned value.
C5_NotFoundReported ==
    (Resolved /\ NameAbsent) => ret.kind \notin {"Ok", "Panic"}
\* C5 as amended: when no record of the list is named like the target,
\* from_apiresourcelist panics with "resource not found in APIResourceList"
\* and returns nothing; when a record is, it returns.
C5_NotFoundPanics ==
    Resolved =>
        /\ NameAbsent => ret = Panic("resource not found in APIResourceList")
        /\ ~NameAbsent => ret.kind = "Ok"
C5_Witness ==
    /\ Resolved
    /\ NameAbsent
    /\ Len(call.list.resources) = 2
    /\ ret.kind = "Panic"

IsSubresourceOf(name, target) ==
    /\ Len(name) > Len(target)
    /\ \A i \in 1..Len(target) : name[i] = target[i]
    /\ name[Len(target) + 1] = Slash
SubresourceRecords == SelectSeq(call.list.resources, LAMBDA r : IsSubresourceOf(r.name, call.name))

\* C6: the subresources of from_apiresourcelist(list, target) are, one to
\* one and in list order, the records whose name begins with target + "/",
\* each with its plural set to the name without that prefix; "pods" and
\* "pods/status" give exactly the child "status", "pods" alone gives none.
C6_SubresourcesInListOrder ==
    Returned("from_apiresourcelist") =>
        LET subs == ret.value.subresources
        IN  /\ Len(subs) = Len(SubresourceRecords)
            /\ \A i \in 1..Len(subs) :
                  /\ subs[i][1].plural_name =
                        SubSeq(SubresourceRecords[i].name, Len(call.name) + 2, Len(SubresourceRecords[i].name))
                  /\ subs[i][1].kind = SubresourceRecords[i].kind
                  /\ subs[i][1].scope = (IF SubresourceRecords[i].namespaced THEN Namespaced ELSE Cluster)
            /\ (call.list = PodsList /\ call.name = S_pods) =>
                  Len(subs) = 1 /\ subs[1][1].plural_name = S_status
            /\ (call.list = PodsOnlyList /\ call.name = S_pods) => subs = <<>>
C6_Witness ==
    /\ Returned("from_apiresourcelist")
    /\ call.name = N_p
    /\ Len(call.list.resources) = 3
    /\ call.list.resources[1].name = N_p_s
    /\ call.list.resources[2].name = N_p
    /\ call.list.resources[3].name = N_p_
    /\ Len(ret.value.subresources) = 2
    /\ ret.value.subresources[1][1].plural_name = <<"s">>
    /\ ret.value.subresources[2][1].plural_name = S_empty

\* the names of the records that the nodes of a resolved tree were built
\* from: the node itself, then its subresources, depth first
RECURSIVE NodeNames(_, _)
RECURSIVE ChildNodeNames(_, _, _)
ChildNodeNames(extras, name, i) ==
    IF i > Len(extras.subresources) THEN <<>>
    ELSE NodeNames(extras.subresources[i][2], name \o <<Slash>> \o extras.subresources[i][1].plural_name)
            \o ChildNodeNames(extras, name, i + 1)
NodeNames(extras, name) == <<name>> \o ChildNodeNames(extras, name, 1)
DistinctNames(l) ==
    \A i, j \in 1..Len(l.resources) : i # j => l.resources[i].name # l.resources[j].name
NoDuplicates(q) == \A i, j \in 1..Len(q) : i # j => q[i] # q[j]

\* C10: for a list of pairwise distinct names, every record contributes at
\* most one node to the resolved tree, and every child's plural is a single
\* path segment without '/'.
C10_OneNodePerRecord ==
    (Returned("from_apiresourcelist") /\ DistinctNames(call.list)) =>
        /\ NoDuplicates(NodeNames(ret.value, call.name))
        /\ \A d \in TreeDescriptors(ret.value) : Slash \notin Range(d.plural_name)

\* "/" + segment for every segment, concatenated
RECURSIVE JoinSegments(_)
JoinSegments(segments) ==
    IF segments = <<>> THEN <<>>
    ELSE <<Slash>> \o Head(segments) \o JoinSegments(Tail(segments))
\* the segments as the claim states them: the namespace only for a
\* Namespaced descriptor
PathSegments(d, namespace, name, subresource) ==
    (IF d.group = S_empty THEN <<S_api>> ELSE <<S_apis, d.group>>)
    \o <<d.version>>
    \o (IF d.scope = Namespaced /\ namespace # None THEN <<S_namespaces, namespace[1]>> ELSE <<>>)
    \o <<d.plural_name>> \o name \o subresource
\* the segments with the namespace whenever one is given
PathSegmentsAnyScope(d, namespace, name, subresource) ==
    (IF d.group = S_empty THEN <<S_api>> ELSE <<S_apis, d.group>>)
    \o <<d.version>>
    \o (IF namespace # None THEN <<S_namespaces, namespace[1]>> ELSE <<>>)
    \o <<d.plural_name>> \o name \o subresource

RECURSIVE Meaning(_)
Meaning(v) ==
    [t |-> v.t, s |-> v.s,
     members |-> {<<k, Meaning(LastValue(v.o, k))>> : k \in Keys(v.o)},
     items |-> [i \in 1..Len(v.a) |-> Meaning(v.a[i])]]

\* C8: deserializing a JSON object of optional type info, a metadata object
\* and further top-level keys into a DynamicObject and serializing it again
\* yields the same top-level keys with the same values, each once and none
\* nested; apiVersion and kind are left out when the type info is absent.
C8_RoundTrip ==
    (status = "returned" /\ call.op = "round_trip") =>
        /\ ret.kind = "Ok"
        /\ Keys(ret.value) = Keys(call.json)
        /\ Len(ret.value) = Cardinality(Keys(call.json))
        /\ \A i \in 1..Len(call.json) : \A j \in 1..Len(ret.value) :
              call.json[i][1] = ret.value[j][1] => Meaning(ret.value[j][2]) = Meaning(call.json[i][2])
        /\ (K_apiVersion \notin Keys(call.json)) =>
              \A j \in 1..Len(ret.value) : ret.value[j][1] \notin TypeMetaFields
C8_Witness ==
    /\ Returned("round_trip")
    /\ call.json = <<<<K_kind, JString(S_Pod)>>,
                     <<K_zz, JObject(<<<<K_b, JNumber(T_1)>>, <<K_a, JNumber(T_2)>>>>)>>,
                     <<K_metadata, JObject(<<<<K_namespace, JString(T_n)>>, <<K_name, JString(K_a)>>>>)>>,
                     <<K_foo, JNull>>,
                     <<K_apiVersion, JString(S_apps_v1)>>>>
    /\ ret.value = <<<<K_apiVersion, JString(S_apps_v1)>>,
                     <<K_kind, JString(S_Pod)>>,
                     <<K_metadata, JObject(<<<<K_name, JString(K_a)>>, <<K_namespace, JString(T_n)>>>>)>>,
                     <<K_foo, JNull>>,
                     <<K_zz, JObject(<<<<K_a, JNumber(T_2)>>, <<K_b, JNumber(T_1)>>>>)>>>>

\* the step-wise walk makes exactly the calls of the recursive definition
\* and fails exactly when it does
WalkAgrees ==
    /\ status = "done" =>
          /\ from_apiresourcelist(call.list, call.name).kind = "Ok"
          /\ ret.calls = Len(NodeNames(from_apiresourcelist(call.list, call.name).value, call.name))
    /\ status = "panicked" => from_apiresourcelist(call.list, call.name) = ret

\* C9: from_apiresourcelist terminates on every finite list and target:
\* every recursive call is made on a name strictly longer than its caller's,
\* never on the caller's own target, so the depth is bounded by the list.
C9_Terminates ==
    /\ [](\A i \in 1..(Len(stack) - 1) :
              /\ Len(stack[i + 1].name) > Len(stack[i].name)
              /\ stack[i + 1].name # stack[i].name)
    /\ [](Len(stack) <= Len(call.list.resources) + 1)
    /\ <>(status \in {"done", "panicked"})
C9_Witness ==
    /\ status = "running"
    /\ Len(stack) = 3
    /\ stack[1].name = N_p
    /\ stack[3].name = N_p_s_t
====
